---- MODULE Spec2Model ----
(***************************************************************************)
(* The read-only TFTP server of chapter6: the wire codec of tftp.go and    *)
(* the transfer loop of Server.handle in server.go.                        *)
(*                                                                         *)
(* A byte is a number in 0..255, a []byte or a string is a sequence of     *)
(* bytes.  The served payload (Server.Payload) is kept as a record         *)
(* [len, seed] standing for the byte string of length len whose k-th byte  *)
(* (counting from 0) is (seed + k) % 251; PayloadSlice gives its bytes.    *)
(***************************************************************************)
EXTENDS Integers, Sequences, FiniteSets, TLC

\* ------------------------------------------------------------------ bounds
MaxRetries == 2

\* --------------------------------------------------------------- constants
DatagramSize == 516
BlockSize == DatagramSize - 4

OpRRQ == 1
OpDATA == 3
OpACK == 4
OpERR == 5

\* time.Second, with the millisecond as the unit of a time.Duration
Second == 1000

\* "octet" and "netascii"
Octet == << 111, 99, 116, 101, 116 >>

Netascii == << 110, 101, 116, 97, 115, 99, 105, 105 >>

\* the width of Data.Block, Ack, OpCode and ErrorCode (uint16)
Uint16 == 65536

\* ----------------------------------------------------------------- helpers
Min(a, b) == IF a < b THEN a ELSE b

\* binary.BigEndian: a uint16 as two bytes, and back
PutUint16(x) == << (x % Uint16) \div 256, x % 256 >>

GetUint16(p, k) == p[k] * 256 + p[k + 1]

\* the bytes [from, to) of the payload s, as payload[from:to] in Go
PayloadSlice(s, from, to) == [k \in 1..(to - from) |-> (s.seed + from + k - 1) % 251]

\* strings.TrimRight(s, "\x00")
RECURSIVE TrimRightNul(_)
TrimRightNul(s) ==
    IF Len(s) > 0 /\ s[Len(s)] = 0 THEN TrimRightNul(SubSeq(s, 1, Len(s) - 1)) ELSE s

\* the index of the first NUL of s, 0 when there is none
IndexNul(s) ==
    IF \E k \in 1..Len(s) : s[k] = 0
    THEN CHOOSE k \in 1..Len(s) : s[k] = 0 /\ \A j \in 1..(k - 1) : s[j] # 0
    ELSE 0

\* bytes.Buffer.ReadString(0) on the unread bytes s: the line up to and
\* including the delimiter; without a delimiter all of s and io.EOF
ReadString(s) ==
    LET k == IndexNul(s)
    IN  IF k = 0
        THEN [line |-> s, rest |-> <<>>, err |-> TRUE]
        ELSE [line |-> SubSeq(s, 1, k), rest |-> SubSeq(s, k + 1, Len(s)), err |-> FALSE]

\* ------------------------------------------------------------------- codec
\* strings.ToLower on ASCII bytes
ToLower(str) == [k \in 1..Len(str) |-> IF str[k] \in 65..90 THEN str[k] + 32 ELSE str[k]]

\* ReadReq.MarshalBinary writing the Mode field as it is, also when empty
ReadReqMarshalBinary_NoDefault(q) ==
    PutUint16(OpRRQ) \o q.Filename \o <<0>> \o q.Mode \o <<0>>

\* ReadReq.MarshalBinary
ReadReqMarshalBinary(q) ==
    LET mode == IF q.Mode # <<>> THEN q.Mode ELSE Octet
    IN  PutUint16(OpRRQ) \o q.Filename \o <<0>> \o mode \o <<0>>

\* ReadReq.UnmarshalBinary storing the mode in lower case
ReadReqUnmarshalBinary_LowerMode(q, p) ==
    IF Len(p) < 2 THEN [err |-> TRUE, q |-> q]
    ELSE IF GetUint16(p, 1) # OpRRQ THEN [err |-> TRUE, q |-> q]
    ELSE LET f == ReadString(SubSeq(p, 3, Len(p)))
             m == ReadString(f.rest)
             name == TrimRightNul(f.line)
             mode == TrimRightNul(m.line)
         IN  IF f.err THEN [err |-> TRUE, q |-> [q EXCEPT !.Filename = f.line]]
             ELSE IF name = <<>> THEN [err |-> TRUE, q |-> [q EXCEPT !.Filename = name]]
             ELSE IF m.err THEN [err |-> TRUE, q |-> [Filename |-> name, Mode |-> m.line]]
             ELSE IF mode = <<>> THEN [err |-> TRUE, q |-> [Filename |-> name, Mode |-> mode]]
             ELSE IF ToLower(mode) # Octet THEN [err |-> TRUE, q |-> [Filename |-> name, Mode |-> mode]]
             ELSE [err |-> FALSE, q |-> [Filename |-> name, Mode |-> ToLower(mode)]]

\* ReadReq.UnmarshalBinary comparing the mode as it is spelled
ReadReqUnmarshalBinary_CaseSensitive(q, p) ==
    IF Len(p) < 2 THEN [err |-> TRUE, q |-> q]
    ELSE IF GetUint16(p, 1) # OpRRQ THEN [err |-> TRUE, q |-> q]
    ELSE LET f == ReadString(SubSeq(p, 3, Len(p)))
             m == ReadString(f.rest)
             name == TrimRightNul(f.line)
             mode == TrimRightNul(m.line)
         IN  IF f.err THEN [err |-> TRUE, q |-> [q EXCEPT !.Filename = f.line]]
             ELSE IF name = <<>> THEN [err |-> TRUE, q |-> [q EXCEPT !.Filename = name]]
             ELSE IF m.err THEN [err |-> TRUE, q |-> [Filename |-> name, Mode |-> m.line]]
             ELSE IF mode = <<>> THEN [err |-> TRUE, q |-> [Filename |-> name, Mode |-> mode]]
             ELSE IF mode # Octet THEN [err |-> TRUE, q |-> [Filename |-> name, Mode |-> mode]]
             ELSE [err |-> FALSE, q |-> [Filename |-> name, Mode |-> mode]]

\* ReadReq.UnmarshalBinary: q is the value before the call; the fields are
\* assigned as they are read, also when the call fails
ReadReqUnmarshalBinary(q, p) ==
    IF Len(p) < 2 THEN [err |-> TRUE, q |-> q]
    ELSE IF GetUint16(p, 1) # OpRRQ THEN [err |-> TRUE, q |-> q]
    ELSE LET f == ReadString(SubSeq(p, 3, Len(p)))
             m == ReadString(f.rest)
             name == TrimRightNul(f.line)
             mode == TrimRightNul(m.line)
         IN  IF f.err THEN [err |-> TRUE, q |-> [q EXCEPT !.Filename = f.line]]
             ELSE IF name = <<>> THEN [err |-> TRUE, q |-> [q EXCEPT !.Filename = name]]
             ELSE IF m.err THEN [err |-> TRUE, q |-> [Filename |-> name, Mode |-> m.line]]
             ELSE IF mode = <<>> THEN [err |-> TRUE, q |-> [Filename |-> name, Mode |-> mode]]
             ELSE IF ToLower(mode) # Octet THEN [err |-> TRUE, q |-> [Filename |-> name, Mode |-> mode]]
             ELSE [err |-> FALSE, q |-> [Filename |-> name, Mode |-> mode]]

\* Data.MarshalBinary without the d.Block++
DataMarshalBinary_NoIncrement(d) ==
    LET from == d.Payload.i
        to   == Min(from + BlockSize, d.Payload.s.len)
    IN  [d     |-> [Block |-> d.Block, Payload |-> [s |-> d.Payload.s, i |-> to]],
         bytes |-> PutUint16(OpDATA) \o PutUint16(d.Block) \o PayloadSlice(d.Payload.s, from, to)]

\* Data.MarshalBinary copying one byte less than the block size
DataMarshalBinary_ShortCopy(d) ==
    LET block == (d.Block + 1) % Uint16
        from  == d.Payload.i
        to    == Min(from + BlockSize - 1, d.Payload.s.len)
    IN  [d     |-> [Block |-> block, Payload |-> [s |-> d.Payload.s, i |-> to]],
         bytes |-> PutUint16(OpDATA) \o PutUint16(block) \o PayloadSlice(d.Payload.s, from, to)]

\* Data.MarshalBinary with a Block wider than 16 bits
DataMarshalBinary_NoWrap(d) ==
    LET block == d.Block + 1
        from  == d.Payload.i
        to    == Min(from + BlockSize, d.Payload.s.len)
    IN  [d     |-> [Block |-> block, Payload |-> [s |-> d.Payload.s, i |-> to]],
         bytes |-> PutUint16(OpDATA) \o PutUint16(block) \o PayloadSlice(d.Payload.s, from, to)]

\* Data.MarshalBinary: increments d.Block, writes opcode and block number,
\* then copies up to BlockSize bytes from the reader d.Payload
DataMarshalBinary(d) ==
    LET block == (d.Block + 1) % Uint16
        from  == d.Payload.i
        to    == Min(from + BlockSize, d.Payload.s.len)
    IN  [d     |-> [Block |-> block, Payload |-> [s |-> d.Payload.s, i |-> to]],
         bytes |-> PutUint16(OpDATA) \o PutUint16(block) \o PayloadSlice(d.Payload.s, from, to)]

\* a Data whose Payload is a reader over no bytes
ZeroData == [Block |-> 0, Payload |-> <<>>]

\* Data.UnmarshalBinary without the upper bound on len(p)
DataUnmarshalBinary_NoUpperBound(d, p) ==
    IF Len(p) < 4 THEN [err |-> TRUE, d |-> d]
    ELSE IF GetUint16(p, 1) # OpDATA THEN [err |-> TRUE, d |-> d]
    ELSE [err |-> FALSE, d |-> [Block |-> GetUint16(p, 3), Payload |-> SubSeq(p, 5, Len(p))]]

\* Data.UnmarshalBinary: d is the value before the call; after a successful
\* call d.Payload is the reader over the bytes p[4:], kept as those bytes
DataUnmarshalBinary(d, p) ==
    IF Len(p) < 4 \/ Len(p) > DatagramSize THEN [err |-> TRUE, d |-> d]
    ELSE IF GetUint16(p, 1) # OpDATA THEN [err |-> TRUE, d |-> d]
    ELSE [err |-> FALSE, d |-> [Block |-> GetUint16(p, 3), Payload |-> SubSeq(p, 5, Len(p))]]

\* Ack.MarshalBinary
AckMarshalBinary(a) == PutUint16(OpACK) \o PutUint16(a)

\* Ack.UnmarshalBinary without the test of the operation code
AckUnmarshalBinary_AnyOpcode(a, p) ==
    IF Len(p) < 4 THEN [err |-> TRUE, a |-> a]
    ELSE [err |-> FALSE, a |-> GetUint16(p, 3)]

\* Ack.UnmarshalBinary: a is the value before the call
AckUnmarshalBinary(a, p) ==
    IF Len(p) < 2 THEN [err |-> TRUE, a |-> a]
    ELSE IF GetUint16(p, 1) # OpACK THEN [err |-> TRUE, a |-> a]
    ELSE IF Len(p) < 4 THEN [err |-> TRUE, a |-> a]
    ELSE [err |-> FALSE, a |-> GetUint16(p, 3)]

\* Error.MarshalBinary without the 0 byte after the message
ErrorMarshalBinary_NoTerminator(e) ==
    PutUint16(OpERR) \o PutUint16(e.Error) \o e.Message

\* Error.MarshalBinary
ErrorMarshalBinary(e) ==
    PutUint16(OpERR) \o PutUint16(e.Error) \o e.Message \o <<0>>

\* Error.UnmarshalBinary taking a message that ends with the buffer
ErrorUnmarshalBinary_AcceptsUnterminated(e, p) ==
    IF Len(p) < 2 THEN [err |-> TRUE, e |-> e]
    ELSE IF GetUint16(p, 1) # OpERR THEN [err |-> TRUE, e |-> e]
    ELSE IF Len(p) < 4 THEN [err |-> TRUE, e |-> e]
    ELSE [err |-> FALSE,
          e |-> [Error |-> GetUint16(p, 3),
                 Message |-> TrimRightNul(ReadString(SubSeq(p, 5, Len(p))).line)]]

\* Error.UnmarshalBinary: e is the value before the call
ErrorUnmarshalBinary(e, p) ==
    IF Len(p) < 2 THEN [err |-> TRUE, e |-> e]
    ELSE IF GetUint16(p, 1) # OpERR THEN [err |-> TRUE, e |-> e]
    ELSE IF Len(p) < 4 THEN [err |-> TRUE, e |-> e]
    ELSE LET code == GetUint16(p, 3)
             rd   == ReadString(SubSeq(p, 5, Len(p)))
         IN  IF rd.err
             THEN [err |-> TRUE, e |-> [Error |-> code, Message |-> rd.line]]
             ELSE [err |-> FALSE, e |-> [Error |-> code, Message |-> TrimRightNul(rd.line)]]

\* ------------------------------------------------------------------- state
VARIABLES
    Payload,    \* Server.Payload
    Retries,    \* Server.Retries (uint8), as Serve leaves it: never 0
    pc,         \* where Server.handle stands: dial, marshal, write, read, return
    conn,       \* the socket net.Dial returns: none, open, closed
    ackPkt,     \* handle's ackPkt
    errPkt,     \* handle's errPkt
    dataPkt,    \* handle's dataPkt: Block and the reader over the payload
    buf,        \* handle's receive buffer
    data,       \* the encoded data packet of the current block
    n,          \* the loop variable n: the length of the last write
    i,          \* the loop variable i of the RETRY loop
    wire,       \* history: the datagrams written to conn, in order
    acked,      \* history: the block numbers of the datagrams read from conn that
                \* decode as an acknowledgment (the datagram alone, not buf)
    awaits,     \* history: what each conn.Read of the current block returned
    log,        \* the lines handle logged
    Timeout,    \* Server.Timeout, in milliseconds
    lconn,      \* the conn Serve is called with: nil, open
    lnet,       \* the datagrams on their way to the listening socket, in order
    srv,        \* where Serve stands: start, recv, return
    serveErr,   \* the error Serve returned
    rrq,        \* Serve's rrq
    ts,         \* the goroutines Serve launched, in order: one handle each
    nsock,      \* the number of sockets net.Dial has opened
    slog,       \* the lines Serve logged
    sbuf,       \* the sender and the buffer of the conn.ReadFrom of this turn of Serve
    lrecv,      \* history: the datagrams conn.ReadFrom returned, with their sender
    cfg,        \* history: Retries and Timeout as configured before Serve ran
    csrc,       \* the packet value a MarshalBinary is called on
    cbytes,     \* the byte slice: what MarshalBinary returned, what UnmarshalBinary is given
    cdst,       \* the packet value an UnmarshalBinary was called on, before and after
    cerr,       \* whether the last call of the codec returned an error
    cop         \* history: the calls of the codec made so far

\* the state of Serve and of the goroutines it launches
svars == << Timeout, lconn, lnet, srv, serveErr, rrq, ts, nsock, slog, sbuf, lrecv, cfg >>

\* the state of a caller of the codec alone
cvars == << csrc, cbytes, cdst, cerr, cop >>

\* the locals of the one handle that Spec follows
hvars == << pc, conn, ackPkt, errPkt, dataPkt, buf, data, n, i, wire, acked, awaits, log >>

vars == << Payload, Retries, pc, conn, ackPkt, errPkt, dataPkt, buf, data, n, i,
           wire, acked, awaits, log,
           Timeout, lconn, lnet, srv, serveErr, rrq, ts, nsock, slog, sbuf, lrecv, cfg,
           csrc, cbytes, cdst, cerr, cop >>

\* the payload lengths served: empty, one short block, exact multiples of the
\* block size, and a multiple plus a remainder
PayloadLens == {0, 11, BlockSize, BlockSize + 188, 2 * BlockSize}

NoPayload == [len |-> 0, seed |-> 0]

Zeros(k) == [j \in 1..k |-> 0]

Line(msg, v) == [msg |-> msg, v |-> v]

\* the datagrams conn.Read may return while block b is awaited: none is
\* longer than buf
Datagrams(b) ==
    { AckMarshalBinary(b),
      AckMarshalBinary((b + Uint16 - 1) % Uint16),
      PutUint16(OpACK),
      PutUint16(OpDATA) \o PutUint16(b),
      <<>>,
      ErrorMarshalBinary([Error |-> 1, Message |-> <<120>>]),
      PutUint16(OpERR),
      PutUint16(OpERR) \o [j \in 1..(DatagramSize - 2) |-> 1] }

\* Serve has accepted one read request and launched the handle that Spec
\* follows; the goroutines of SpecServe are not looked at
\* no call of the codec other than those of Serve and handle
CodecIdle ==
    /\ csrc = [type |-> "none"]
    /\ cbytes = <<>>
    /\ cdst = [type |-> "none"]
    /\ cerr = FALSE
    /\ cop = <<>>

ServeLaunchedOne ==
    /\ Timeout = 6 * Second
    /\ lconn = "open"
    /\ lnet = <<>>
    /\ srv = "recv"
    /\ serveErr = ""
    /\ rrq = [Filename |-> <<120>>, Mode |-> Octet]
    /\ ts = <<>>
    /\ nsock = 0
    /\ slog = <<>>
    /\ sbuf = [addr |-> "", buf |-> <<>>]
    /\ lrecv = <<>>
    /\ cfg = [Retries |-> Retries, Timeout |-> Timeout]

Init ==
    /\ Payload \in {[len |-> l, seed |-> 3] : l \in PayloadLens}
    /\ Retries \in 1..MaxRetries
    /\ pc = "dial"
    /\ conn = "none"
    /\ ackPkt = 0
    /\ errPkt = [Error |-> 0, Message |-> <<>>]
    /\ dataPkt = [Block |-> 0, Payload |-> [s |-> NoPayload, i |-> 0]]
    /\ buf = <<>>
    /\ data = <<>>
    /\ n = 0
    /\ i = 0
    /\ wire = <<>>
    /\ acked = {}
    /\ awaits = <<>>
    /\ log = <<>>
    /\ ServeLaunchedOne
    /\ CodecIdle

\* a return that leaves the socket open
Return_LeavesOpen(lg) ==
    /\ pc' = "return"
    /\ conn' = conn
    /\ log' = lg

\* ---------------------------------------------------------- Server.handle
\* a return after the socket was opened: the deferred conn.Close runs
Return(lg) ==
    /\ pc' = "return"
    /\ conn' = "closed"
    /\ log' = lg

\* the RETRY loop with the test i >= 0
ContinueRetry_OffByOne(lg) ==
    /\ i' = i - 1
    /\ IF i - 1 >= 0
       THEN pc' = "write" /\ conn' = conn /\ log' = lg
       ELSE Return(Append(lg, Line("exhausted retries", 0)))

\* the end of an iteration of the RETRY loop: i--, then the test i > 0;
\* when it fails the loop is left and "exhausted retries" is logged
ContinueRetry(lg) ==
    /\ i' = i - 1
    /\ IF i - 1 > 0
       THEN pc' = "write" /\ conn' = conn /\ log' = lg
       ELSE Return(Append(lg, Line("exhausted retries", 0)))

\* continue NEXTPACKET logging the number of datagrams written
ContinueNextPacket_CountsWrites ==
    /\ i' = i
    /\ IF n = DatagramSize
       THEN pc' = "marshal" /\ conn' = conn /\ log' = log
       ELSE Return(Append(log, Line("sent blocks", Len(wire))))

\* continue NEXTPACKET going on while the last packet carried any payload
ContinueNextPacket_UntilEmpty ==
    /\ i' = i
    /\ IF n > 4
       THEN pc' = "marshal" /\ conn' = conn /\ log' = log
       ELSE Return(Append(log, Line("sent blocks", dataPkt.Block)))

\* continue NEXTPACKET leaving the loop as soon as the reader is drained
ContinueNextPacket_StopWhenDrained ==
    /\ i' = i
    /\ IF n = DatagramSize /\ dataPkt.Payload.i < dataPkt.Payload.s.len
       THEN pc' = "marshal" /\ conn' = conn /\ log' = log
       ELSE Return(Append(log, Line("sent blocks", dataPkt.Block)))

\* continue NEXTPACKET: the test n == DatagramSize; when it fails the loop is
\* left and the number of blocks is logged
ContinueNextPacket ==
    /\ i' = i
    /\ IF n = DatagramSize
       THEN pc' = "marshal" /\ conn' = conn /\ log' = log
       ELSE Return(Append(log, Line("sent blocks", dataPkt.Block)))

\* net.Dial, the declarations of the locals and the initialisation of n
Dial ==
    /\ pc = "dial"
    /\ \E ok \in BOOLEAN :
         IF ok
         THEN /\ conn' = "open"
              /\ dataPkt' = [Block |-> 0, Payload |-> [s |-> Payload, i |-> 0]]
              /\ buf' = Zeros(DatagramSize)
              /\ n' = DatagramSize
              /\ pc' = "marshal"
              /\ log' = log
         ELSE /\ pc' = "return"
              /\ log' = Append(log, Line("dial", 0))
              /\ UNCHANGED << conn, dataPkt, buf, n >>
    /\ UNCHANGED << Payload, Retries, ackPkt, errPkt, data, i, wire, acked, awaits >>
    /\ UNCHANGED << svars, cvars >>

\* the RETRY loop entered with the counter the previous block left
Marshal_KeepsBudget ==
    /\ pc = "marshal"
    /\ n = DatagramSize
    /\ LET m == DataMarshalBinary(dataPkt)
       IN  /\ dataPkt' = m.d
           /\ data' = m.bytes
    /\ i' = IF dataPkt.Block = 0 THEN Retries ELSE i
    /\ awaits' = <<>>
    /\ pc' = "write" /\ conn' = conn /\ log' = log
    /\ UNCHANGED << Payload, Retries, ackPkt, errPkt, buf, n, wire, acked >>
    /\ UNCHANGED << svars, cvars >>

\* dataPkt.MarshalBinary at the top of NEXTPACKET, then the RETRY loop starts
Marshal ==
    /\ pc = "marshal"
    /\ n = DatagramSize
    /\ LET m == DataMarshalBinary(dataPkt)
       IN  /\ dataPkt' = m.d
           /\ data' = m.bytes
    /\ i' = Retries
    /\ awaits' = <<>>
    /\ IF Retries > 0
       THEN pc' = "write" /\ conn' = conn /\ log' = log
       ELSE Return(Append(log, Line("exhausted retries", 0)))
    /\ UNCHANGED << Payload, Retries, ackPkt, errPkt, buf, n, wire, acked >>
    /\ UNCHANGED << svars, cvars >>

\* conn.Write of a packet encoded again for every retransmission
Write_Reencode ==
    /\ pc = "write"
    /\ LET m == IF awaits = <<>> THEN [d |-> dataPkt, bytes |-> data]
                ELSE DataMarshalBinary(dataPkt)
       IN  /\ wire' = Append(wire, m.bytes)
           /\ data' = m.bytes
           /\ dataPkt' = m.d
           /\ n' = Len(m.bytes)
    /\ pc' = "read"
    /\ UNCHANGED << Payload, Retries, conn, ackPkt, errPkt, buf, i, acked, awaits, log >>
    /\ UNCHANGED << svars, cvars >>

\* conn.Write(data): the datagram goes out, or the write fails
Write ==
    /\ pc = "write"
    /\ \E ok \in BOOLEAN :
         IF ok
         THEN /\ wire' = Append(wire, data)
              /\ n' = Len(data)
              /\ pc' = "read"
              /\ UNCHANGED << conn, log >>
         ELSE /\ Return(Append(log, Line("write", 0)))
              /\ UNCHANGED << wire, n >>
    /\ UNCHANGED << Payload, Retries, ackPkt, errPkt, dataPkt, buf, data, i, acked, awaits >>
    /\ UNCHANGED << svars, cvars >>

\* conn.Read(buf) runs into the read deadline
ReadTimeout ==
    /\ pc = "read"
    /\ awaits' = Append(awaits, [t |-> "timeout", d |-> <<>>])
    /\ ContinueRetry(log)
    /\ UNCHANGED << Payload, Retries, ackPkt, errPkt, dataPkt, buf, data, n, wire, acked >>
    /\ UNCHANGED << svars, cvars >>

\* a failed conn.Read treated like a timeout
ReadError_Retries ==
    /\ pc = "read"
    /\ awaits' = Append(awaits, [t |-> "error", d |-> <<>>])
    /\ ContinueRetry(log)
    /\ UNCHANGED << Payload, Retries, ackPkt, errPkt, dataPkt, buf, data, n, wire, acked >>
    /\ UNCHANGED << svars, cvars >>

\* conn.Read(buf) fails with an error that is no timeout
ReadError ==
    /\ pc = "read"
    /\ awaits' = Append(awaits, [t |-> "error", d |-> <<>>])
    /\ Return(Append(log, Line("waiting for ACK", 0)))
    /\ UNCHANGED << Payload, Retries, ackPkt, errPkt, dataPkt, buf, data, n, i, wire, acked >>
    /\ UNCHANGED << svars, cvars >>

\* the Ack case without the comparison of block numbers
OnAck_AnyBlock(a) == ContinueNextPacket

\* the Error case going on with the RETRY loop
OnError_Retries(e) == ContinueRetry(Append(log, Line("received error", e.Error)))

\* case ackPkt.UnmarshalBinary(buf) == nil: the next block when the block
\* number is the one just sent, else the switch is left and RETRY goes on
OnAck(a) ==
    IF a = dataPkt.Block
    THEN ContinueNextPacket
    ELSE ContinueRetry(log)

\* case errPkt.UnmarshalBinary(buf) == nil: logged, and handle returns
OnError(e) ==
    /\ Return(Append(log, Line("received error", e.Error)))
    /\ i' = i

\* the default case going on with RETRY without the i--
OnBadPacket_KeepsBudget ==
    /\ i' = i
    /\ pc' = "write"
    /\ conn' = conn
    /\ log' = Append(log, Line("bad packet", 0))

\* default: logged as a bad packet, the switch is left and RETRY goes on
OnBadPacket ==
    ContinueRetry(Append(log, Line("bad packet", 0)))

\* the block number a datagram acknowledges, if it decodes as an Ack at all
DecodesAsAck(d) ==
    LET a == AckUnmarshalBinary(0, d) IN IF a.err THEN {} ELSE {a.a}

\* conn.Read(buf) returns the datagram d, copied over the head of buf; the
\* switch then decodes all of buf
ReadOne(d) ==
    LET b == d \o SubSeq(buf, Len(d) + 1, Len(buf))
        a == AckUnmarshalBinary(ackPkt, b)
        e == ErrorUnmarshalBinary(errPkt, b)
    IN  /\ buf' = b
        /\ acked' = acked \cup DecodesAsAck(d)
        /\ awaits' = Append(awaits, [t |-> "datagram", d |-> d])
        /\ ackPkt' = a.a
        /\ IF ~a.err
           THEN errPkt' = errPkt /\ OnAck(a.a)
           ELSE /\ errPkt' = e.e
                /\ IF ~e.err THEN OnError(e.e) ELSE OnBadPacket

\* conn.Read(buf) returns a datagram, whatever the peer sent
ReadDatagram ==
    /\ pc = "read"
    /\ \E d \in Datagrams(dataPkt.Block) : ReadOne(d)
    /\ UNCHANGED << Payload, Retries, dataPkt, data, n, wire >>
    /\ UNCHANGED << svars, cvars >>

\* conn.Read(buf) returns the acknowledgment of the block awaited
ReadAck ==
    /\ pc = "read"
    /\ ReadOne(AckMarshalBinary(dataPkt.Block))
    /\ UNCHANGED << Payload, Retries, dataPkt, data, n, wire >>
    /\ UNCHANGED << svars, cvars >>

Next == Dial \/ Marshal \/ Write \/ ReadTimeout \/ ReadError \/ ReadDatagram

Spec == Init /\ [][Next]_vars

\* the transfer of a longer payload to a peer that acknowledges every block
\* it receives, over a channel that may lose datagrams
LongPayloadLens == {2 * BlockSize + 100, 3 * BlockSize}

InitLong ==
    /\ Payload \in {[len |-> l, seed |-> 3] : l \in LongPayloadLens}
    /\ Retries \in 1..MaxRetries
    /\ pc = "dial"
    /\ conn = "none"
    /\ ackPkt = 0
    /\ errPkt = [Error |-> 0, Message |-> <<>>]
    /\ dataPkt = [Block |-> 0, Payload |-> [s |-> NoPayload, i |-> 0]]
    /\ buf = <<>>
    /\ data = <<>>
    /\ n = 0
    /\ i = 0
    /\ wire = <<>>
    /\ acked = {}
    /\ awaits = <<>>
    /\ log = <<>>
    /\ ServeLaunchedOne
    /\ CodecIdle

NextLong == Dial \/ Marshal \/ Write \/ ReadTimeout \/ ReadError \/ ReadAck

SpecLong == InitLong /\ [][NextLong]_vars

TypeOK ==
    /\ pc \in {"dial", "marshal", "write", "read", "return"}
    /\ conn \in {"none", "open", "closed"}
    /\ Retries \in 1..255
    /\ i \in 0..Retries
    /\ dataPkt.Block \in 0..(Uint16 - 1)
    /\ dataPkt.Payload.i \in 0..dataPkt.Payload.s.len
    /\ Len(buf) \in {0, DatagramSize}

\* ------------------------------------------ Server.Serve and its goroutines
\* In SpecServe every goroutine Serve launches is a record of ts holding the
\* locals of its handle; the steps of handle are those of Dial, Marshal,
\* Write and the reads above, taken on the record.

\* the bound on the datagrams the listening socket receives
MaxRecv == 2

\* the default of Server.Retries
DefaultRetries == 10

\* the default of Server.Timeout, in time.Second
DefaultTimeoutSeconds == 6

PeerA == "10.0.0.1:1069"

PeerB == "10.0.0.2:1069"

ZeroReadReq == [Filename |-> <<>>, Mode |-> <<>>]

ZeroError == [Error |-> 0, Message |-> <<>>]

\* what clients send to the listening socket: read requests for octet in two
\* spellings, one for netascii, one whose mode lacks its NUL terminator, and
\* an acknowledgment
ValidRequest == ReadReqMarshalBinary([Filename |-> <<120>>, Mode |-> <<>>])

Requests ==
    { [addr |-> PeerA, d |-> ValidRequest],
      [addr |-> PeerB, d |-> ReadReqMarshalBinary([Filename |-> <<121>>, Mode |-> <<79, 67, 84, 69, 84>>])],
      [addr |-> PeerA, d |-> ReadReqMarshalBinary([Filename |-> <<120>>, Mode |-> Netascii])],
      [addr |-> PeerB, d |-> PutUint16(OpRRQ) \o <<120, 0>> \o Octet],
      [addr |-> PeerA, d |-> AckMarshalBinary(1)] }

\* the sequences of at most k elements of S
RECURSIVE SeqsUpTo(_, _)
SeqsUpTo(S, k) ==
    IF k = 0 THEN { <<>> }
    ELSE LET shorter == SeqsUpTo(S, k - 1)
         IN  shorter \cup { Append(q, x) : q \in shorter, x \in S }

\* the locals of a handle just launched for the request q of addr
NewHandle(addr, q) ==
    [ addr |-> addr, rrq |-> q, pc |-> "dial", conn |-> 0, open |-> FALSE,
      ackPkt |-> 0, errPkt |-> ZeroError,
      dataPkt |-> [Block |-> 0, Payload |-> [s |-> NoPayload, i |-> 0]],
      buf |-> <<>>, data |-> <<>>, n |-> 0, i |-> 0, deadline |-> 0,
      wire |-> <<>>, got |-> <<>>, log |-> <<>>, src |-> 0 ]

\* a return of handle after the socket was opened: the deferred Close runs
HReturn(h, line) ==
    [h EXCEPT !.pc = "return", !.open = FALSE, !.log = Append(@, line)]

\* the end of an iteration of RETRY: i--, then the test i > 0
HContinueRetry(h) ==
    IF h.i - 1 > 0
    THEN [h EXCEPT !.i = @ - 1, !.pc = "write"]
    ELSE HReturn([h EXCEPT !.i = @ - 1], Line("exhausted retries", 0))

\* continue NEXTPACKET: the test n == DatagramSize
HContinueNextPacket(h) ==
    IF h.n = DatagramSize
    THEN [h EXCEPT !.pc = "marshal"]
    ELSE HReturn(h, Line("sent blocks", h.dataPkt.Block))

\* net.Dial gives the socket already opened to the peer, where there is one
DialSocket_PerPeer(h) ==
    IF \E j \in 1..Len(ts) : ts[j].addr = h.addr /\ ts[j].conn # 0
    THEN ts[CHOOSE j \in 1..Len(ts) : ts[j].addr = h.addr /\ ts[j].conn # 0].conn
    ELSE nsock + 1

\* net.Dial opens a socket of its own for every call
DialSocket(h) == nsock + 1

\* the locals, with dataPkt a Data that the goroutines share
HDial_SharedReader(h, ok, sock) ==
    IF ok
    THEN [h EXCEPT !.conn = sock, !.open = TRUE,
                   !.dataPkt = IF \E j \in 1..Len(ts) : ts[j].conn # 0
                               THEN ts[CHOOSE j \in 1..Len(ts) : ts[j].conn # 0].dataPkt
                               ELSE [Block |-> 0, Payload |-> [s |-> Payload, i |-> 0]],
                   !.buf = Zeros(DatagramSize),
                   !.n = DatagramSize,
                   !.pc = "marshal"]
    ELSE [h EXCEPT !.pc = "return", !.log = Append(@, Line("dial", 0))]

\* the locals, with a reader over bytes that the file name selects
HDial_ByFilename(h, ok, sock) ==
    IF ok
    THEN [h EXCEPT !.conn = sock, !.open = TRUE,
                   !.dataPkt = [Block |-> 0,
                                Payload |-> [s |-> [len |-> Payload.len, seed |-> h.rrq.Filename[1]],
                                             i |-> 0]],
                   !.buf = Zeros(DatagramSize),
                   !.n = DatagramSize,
                   !.pc = "marshal"]
    ELSE [h EXCEPT !.pc = "return", !.log = Append(@, Line("dial", 0))]

\* net.Dial, the locals and the initialisation of n
HDial(h, ok, sock) ==
    IF ok
    THEN [h EXCEPT !.conn = sock, !.open = TRUE,
                   !.dataPkt = [Block |-> 0, Payload |-> [s |-> Payload, i |-> 0]],
                   !.buf = Zeros(DatagramSize),
                   !.n = DatagramSize,
                   !.pc = "marshal"]
    ELSE [h EXCEPT !.pc = "return", !.log = Append(@, Line("dial", 0))]

\* dataPkt.MarshalBinary, then the RETRY loop starts with i = s.Retries
HMarshal(h) ==
    LET m  == DataMarshalBinary(h.dataPkt)
        h1 == [h EXCEPT !.dataPkt = m.d, !.data = m.bytes, !.i = Retries]
    IN  IF Retries > 0
        THEN [h1 EXCEPT !.pc = "write"]
        ELSE HReturn(h1, Line("exhausted retries", 0))

\* conn.Write(data), then conn.SetReadDeadline(time.Now().Add(s.Timeout))
HWrite(h, ok) ==
    IF ok
    THEN [h EXCEPT !.wire = Append(@, h.data), !.n = Len(h.data),
                   !.deadline = Timeout, !.pc = "read"]
    ELSE HReturn(h, Line("write", 0))

\* conn.Read(buf) runs into the read deadline
HReadTimeout(h) == HContinueRetry(h)

\* conn.Read(buf) fails with an error that is no timeout
HReadError(h) == HReturn(h, Line("waiting for ACK", 0))

\* conn.Read(buf) returns the datagram d, sent in reply to goroutine re; the
\* switch decodes all of buf
HReadOne(h, d, re) ==
    LET b  == d \o SubSeq(h.buf, Len(d) + 1, Len(h.buf))
        a  == AckUnmarshalBinary(h.ackPkt, b)
        e  == ErrorUnmarshalBinary(h.errPkt, b)
        h1 == [h EXCEPT !.buf = b, !.ackPkt = a.a, !.got = Append(@, [d |-> d, re |-> re])]
    IN  IF ~a.err
        THEN IF a.a = h.dataPkt.Block THEN HContinueNextPacket(h1) ELSE HContinueRetry(h1)
        ELSE LET h2 == [h1 EXCEPT !.errPkt = e.e]
             IN  IF ~e.err
                 THEN HReturn(h2, Line("received error", e.e.Error))
                 ELSE HContinueRetry([h2 EXCEPT !.log = Append(@, Line("bad packet", 0))])

\* the replies a peer sends to a data packet of block b
PeerReplies(b) ==
    { AckMarshalBinary(b),
      ErrorMarshalBinary([Error |-> 1, Message |-> <<120>>]) }

\* what a step of a goroutine leaves alone
ServeUntouched ==
    UNCHANGED << Payload, Retries, Timeout, lconn, lnet, srv, serveErr, rrq, slog,
                 sbuf, lrecv, cfg, hvars, cvars >>

HandleDial ==
    \E k \in 1..Len(ts) :
        /\ ts[k].pc = "dial"
        /\ \E ok \in BOOLEAN :
             /\ ts' = [ts EXCEPT ![k] = HDial(ts[k], ok, DialSocket(ts[k]))]
             /\ nsock' = IF ok THEN nsock + 1 ELSE nsock
        /\ ServeUntouched

HandleMarshal ==
    \E k \in 1..Len(ts) :
        /\ ts[k].pc = "marshal"
        /\ ts[k].n = DatagramSize
        /\ ts' = [ts EXCEPT ![k] = HMarshal(ts[k])]
        /\ UNCHANGED nsock
        /\ ServeUntouched

HandleWrite ==
    \E k \in 1..Len(ts) :
        /\ ts[k].pc = "write"
        /\ \E ok \in BOOLEAN : ts' = [ts EXCEPT ![k] = HWrite(ts[k], ok)]
        /\ UNCHANGED nsock
        /\ ServeUntouched

HandleReadTimeout ==
    \E k \in 1..Len(ts) :
        /\ ts[k].pc = "read"
        /\ ts' = [ts EXCEPT ![k] = HReadTimeout(ts[k])]
        /\ UNCHANGED nsock
        /\ ServeUntouched

HandleReadError ==
    \E k \in 1..Len(ts) :
        /\ ts[k].pc = "read"
        /\ ts[k].deadline > 0
        /\ ts' = [ts EXCEPT ![k] = HReadError(ts[k])]
        /\ UNCHANGED nsock
        /\ ServeUntouched

\* goroutine k reads from its socket a datagram that a peer sent to that
\* socket, in reply to a data packet that came from it; a deadline that is
\* not after the time it was set at has passed before conn.Read starts, and
\* the read then times out whatever has arrived
HandleReadDatagram ==
    \E k \in 1..Len(ts) :
        /\ ts[k].pc = "read"
        /\ ts[k].deadline > 0
        /\ \E re \in 1..Len(ts) :
             /\ ts[re].conn = ts[k].conn
             /\ ts[re].wire # <<>>
             /\ \E d \in PeerReplies(ts[re].dataPkt.Block) :
                  ts' = [ts EXCEPT ![k] = HReadOne(ts[k], d, re)]
        /\ UNCHANGED nsock
        /\ ServeUntouched

\* the checks at the head of Serve, with Retries and Timeout left as they
\* were configured
ServeStart_NoDefaults ==
    /\ srv = "start"
    /\ IF lconn = "nil"
       THEN /\ srv' = "return"
            /\ serveErr' = "nil connection"
       ELSE IF Payload = NoPayload
       THEN /\ srv' = "return"
            /\ serveErr' = "Payload is required"
       ELSE /\ srv' = "recv"
            /\ serveErr' = serveErr
    /\ UNCHANGED << Payload, Retries, Timeout, lconn, lnet, rrq, ts, nsock, slog, sbuf,
                    lrecv, cfg, hvars, cvars >>

\* the checks and the defaults at the head of Serve
ServeStart ==
    /\ srv = "start"
    /\ IF lconn = "nil"
       THEN /\ srv' = "return"
            /\ serveErr' = "nil connection"
            /\ UNCHANGED << Retries, Timeout >>
       ELSE IF Payload = NoPayload
       THEN /\ srv' = "return"
            /\ serveErr' = "Payload is required"
            /\ UNCHANGED << Retries, Timeout >>
       ELSE /\ srv' = "recv"
            /\ serveErr' = serveErr
            /\ Retries' = IF Retries = 0 THEN DefaultRetries ELSE Retries
            /\ Timeout' = IF Timeout = 0 THEN DefaultTimeoutSeconds * Second ELSE Timeout
    /\ UNCHANGED << Payload, lconn, lnet, rrq, ts, nsock, slog, sbuf, lrecv, cfg, hvars, cvars >>

\* conn.ReadFrom with s.handle called in the loop itself: Serve comes back
\* to conn.ReadFrom when the handle has returned
ServeReadFrom_AfterHandle ==
    /\ srv = "recv"
    /\ \A k \in 1..Len(ts) : ts[k].pc = "return"
    /\ lnet # <<>>
    /\ sbuf' = [addr |-> Head(lnet).addr,
                buf  |-> Head(lnet).d \o Zeros(DatagramSize - Len(Head(lnet).d))]
    /\ lrecv' = Append(lrecv, Head(lnet))
    /\ lnet' = Tail(lnet)
    /\ srv' = "decode"
    /\ UNCHANGED << Payload, Retries, Timeout, lconn, serveErr, rrq, ts, nsock, slog,
                    cfg, hvars, cvars >>

\* the head of a turn of the loop of Serve: conn.ReadFrom returns a datagram
\* in a fresh buffer of DatagramSize bytes
ServeReadFrom ==
    /\ srv = "recv"
    /\ lnet # <<>>
    /\ sbuf' = [addr |-> Head(lnet).addr,
                buf  |-> Head(lnet).d \o Zeros(DatagramSize - Len(Head(lnet).d))]
    /\ lrecv' = Append(lrecv, Head(lnet))
    /\ lnet' = Tail(lnet)
    /\ srv' = "decode"
    /\ UNCHANGED << Payload, Retries, Timeout, lconn, serveErr, rrq, ts, nsock, slog,
                    cfg, hvars, cvars >>

\* the rest of the turn: rrq.UnmarshalBinary(buf), then the log line and
\* continue, or go s.handle
ServeDecode ==
    /\ srv = "decode"
    /\ LET q == ReadReqUnmarshalBinary(rrq, sbuf.buf)
           h == [NewHandle(sbuf.addr, q.q) EXCEPT !.src = Len(lrecv)]
       IN  /\ rrq' = q.q
           /\ IF q.err
              THEN /\ slog' = Append(slog, Line("bad request", 0))
                   /\ ts' = ts
              ELSE /\ slog' = slog
                   /\ ts' = Append(ts, h)
    /\ srv' = "recv"
    /\ UNCHANGED << Payload, Retries, Timeout, lconn, lnet, serveErr, nsock, sbuf, lrecv,
                    cfg, hvars, cvars >>

\* conn.ReadFrom fails, and Serve ends the goroutines it launched
ServeRecvError_Cancels ==
    /\ srv = "recv"
    /\ srv' = "return"
    /\ serveErr' = "read"
    /\ ts' = [k \in 1..Len(ts) |->
                IF ts[k].pc = "return" THEN ts[k]
                ELSE [ts[k] EXCEPT !.pc = "return", !.open = FALSE,
                                   !.log = Append(@, Line("cancelled", 0))]]
    /\ UNCHANGED << Payload, Retries, Timeout, lconn, lnet, rrq, nsock, slog,
                    sbuf, lrecv, cfg, hvars, cvars >>

\* conn.ReadFrom fails (the listening socket was closed): Serve returns
ServeRecvError ==
    /\ srv = "recv"
    /\ srv' = "return"
    /\ serveErr' = "read"
    /\ UNCHANGED << Payload, Retries, Timeout, lconn, lnet, rrq, ts, nsock, slog,
                    sbuf, lrecv, cfg, hvars, cvars >>

\* a handle that is not followed: its locals keep their zero values
HandleIdle ==
    /\ pc = "dial"
    /\ conn = "none"
    /\ ackPkt = 0
    /\ errPkt = ZeroError
    /\ dataPkt = [Block |-> 0, Payload |-> [s |-> NoPayload, i |-> 0]]
    /\ buf = <<>>
    /\ data = <<>>
    /\ n = 0
    /\ i = 0
    /\ wire = <<>>
    /\ acked = {}
    /\ awaits = <<>>
    /\ log = <<>>

ServeNotStarted ==
    /\ srv = "start"
    /\ serveErr = ""
    /\ rrq = ZeroReadReq
    /\ ts = <<>>
    /\ nsock = 0
    /\ slog = <<>>
    /\ sbuf = [addr |-> "", buf |-> <<>>]
    /\ lrecv = <<>>
    /\ cfg = [Retries |-> Retries, Timeout |-> Timeout]
    /\ HandleIdle

\* a server configured in every way, and one client
InitConfigured ==
    /\ lconn \in {"nil", "open"}
    /\ Payload \in {NoPayload, [len |-> 0, seed |-> 3], [len |-> 11, seed |-> 3]}
    /\ Retries \in {0, 1}
    /\ Timeout \in {0, 2 * Second, -Second}
    /\ lnet = << [addr |-> PeerA, d |-> ValidRequest] >>
    /\ ServeNotStarted
    /\ CodecIdle

\* a server with a payload of one block, and the clients sending up to
\* MaxRecv datagrams
InitClients ==
    /\ lconn = "open"
    /\ Payload = [len |-> 11, seed |-> 3]
    /\ Retries = 1
    /\ Timeout = 2 * Second
    /\ lnet \in SeqsUpTo(Requests, MaxRecv)
    /\ ServeNotStarted
    /\ CodecIdle

\* a server with a payload of two blocks, and a pair of read requests, from
\* one peer or from two
InitPair ==
    /\ lconn = "open"
    /\ Payload = [len |-> BlockSize + 188, seed |-> 3]
    /\ Retries = 1
    /\ Timeout = 2 * Second
    /\ lnet \in { << [addr |-> PeerA, d |-> ValidRequest], [addr |-> a, d |-> ValidRequest] >> :
                  a \in {PeerA, PeerB} }
    /\ ServeNotStarted
    /\ CodecIdle

InitServe == InitConfigured \/ InitClients \/ InitPair

NextServe ==
    \/ ServeStart \/ ServeReadFrom \/ ServeDecode \/ ServeRecvError
    \/ HandleDial \/ HandleMarshal \/ HandleWrite
    \/ HandleReadTimeout \/ HandleReadError \/ HandleReadDatagram

SpecServe == InitServe /\ [][NextServe]_vars

\* SpecServeFair: a goroutine that can run does run, and its conn.Read
\* returns, with a datagram, with an error, or at the read deadline.  Serve
\* itself may wait at conn.ReadFrom for ever.
HandleRead == HandleReadTimeout \/ HandleReadError \/ HandleReadDatagram

InitServeFair == InitConfigured \/ InitPair

SpecServeFair ==
    /\ InitServeFair
    /\ [][NextServe]_vars
    /\ WF_vars(HandleDial)
    /\ WF_vars(HandleMarshal)
    /\ WF_vars(HandleWrite)
    /\ WF_vars(HandleRead)

\* ------------------------------------------------- the codec called alone
\* In SpecCodec a caller draws a packet value or a byte slice and calls the
\* MarshalBinary and UnmarshalBinary methods of tftp.go on it.

\* the bound on the calls of Data.MarshalBinary on one Data
MaxCalls == 3

\* "OCTET" and "Octet"
OctetUpper == << 79, 67, 84, 69, 84 >>

OctetMixed == << 79, 99, 116, 101, 116 >>

CodecReadReqs ==
    { [Filename |-> f, Mode |-> m] :
        f \in { <<>>, <<120>>, <<97, 46, 98>> },
        m \in { <<>>, Octet, OctetUpper, OctetMixed, Netascii } }

CodecAcks == { 0, 1, 255, 256, Uint16 - 1 }

CodecErrors ==
    { [Error |-> c, Message |-> m] :
        c \in { 0, 1, 256, Uint16 - 1 },
        m \in { <<>>, <<120>>, <<102, 111, 111>> } }

CodecDatas ==
    { [Block |-> b, Payload |-> [s |-> [len |-> l, seed |-> 3], i |-> 0]] :
        b \in { 0, 1, Uint16 - 2, Uint16 - 1 },
        l \in { 0, 11, BlockSize, BlockSize + 188 } }

\* byte slices that no MarshalBinary returns, or returns only in part
CodecBuffers ==
    { <<>>, <<0>>, <<0, 1>>, <<0, 2>>, <<0, 3>>, <<0, 3, 0>>, <<0, 4>>, <<0, 4, 0>>,
      <<0, 5>>, <<0, 5, 0>>, <<0, 5, 0, 1>>, <<0, 5, 0, 1, 120>>, <<1, 0, 0, 1, 0>>,
      <<0, 3, 0, 7>>, <<0, 0, 0, 7>>, <<0, 4, 0, 7, 9>>,
      <<0, 2, 120, 0>> \o Octet \o <<0>>,
      <<0, 1, 0>> \o Octet \o <<0>>,
      <<0, 1, 120>>,
      <<0, 1, 120, 0>>,
      <<0, 1, 120, 0, 0>>,
      <<0, 1, 120, 0>> \o Octet,
      <<0, 1, 120, 0>> \o Netascii \o <<0>>,
      <<0, 1, 120, 0>> \o OctetMixed \o <<0, 1, 2>>,
      <<0, 1, 120, 0>> \o Octet \o <<0, 0, 0>>,
      <<0, 3, 0, 1>> \o Zeros(BlockSize),
      <<0, 3, 0, 1>> \o Zeros(BlockSize + 1),
      <<0, 4, 0, 1>> \o Zeros(BlockSize + 1),
      <<0, 5, 0, 1>> \o Zeros(BlockSize + 1) }

\* the values a destination of UnmarshalBinary holds before the call
PriorReadReqs == { ZeroReadReq, [Filename |-> <<112>>, Mode |-> <<113>>] }

PriorDatas == { ZeroData, [Block |-> 7, Payload |-> <<9>>] }

PriorAcks == { 0, 7 }

PriorErrors == { ZeroError, [Error |-> 7, Message |-> <<113>>] }

\* the number of calls of Data.MarshalBinary made
Encodes == Cardinality({ j \in 1..Len(cop) : cop[j] = "Data.MarshalBinary" })

\* a byte slice is at hand, and no UnmarshalBinary was called on it
CanDecode ==
    /\ cdst.type = "none"
    /\ csrc.type = "none" \/ cop # <<>>

ReadReqEncode ==
    /\ csrc.type = "ReadReq"
    /\ cop = <<>>
    /\ cbytes' = ReadReqMarshalBinary(csrc.v)
    /\ cerr' = FALSE
    /\ cop' = Append(cop, "ReadReq.MarshalBinary")
    /\ UNCHANGED << csrc, cdst, Payload, Retries, svars, hvars >>

AckEncode ==
    /\ csrc.type = "Ack"
    /\ cop = <<>>
    /\ cbytes' = AckMarshalBinary(csrc.v)
    /\ cerr' = FALSE
    /\ cop' = Append(cop, "Ack.MarshalBinary")
    /\ UNCHANGED << csrc, cdst, Payload, Retries, svars, hvars >>

ErrorEncode ==
    /\ csrc.type = "Error"
    /\ cop = <<>>
    /\ cbytes' = ErrorMarshalBinary(csrc.v)
    /\ cerr' = FALSE
    /\ cop' = Append(cop, "Error.MarshalBinary")
    /\ UNCHANGED << csrc, cdst, Payload, Retries, svars, hvars >>

\* Data.MarshalBinary changes the Data it is called on
DataEncode ==
    /\ csrc.type = "Data"
    /\ Encodes < MaxCalls
    /\ LET m == DataMarshalBinary(csrc.v)
       IN  /\ csrc' = [type |-> "Data", v |-> m.d]
           /\ cbytes' = m.bytes
    /\ cdst' = [type |-> "none"]
    /\ cerr' = FALSE
    /\ cop' = Append(cop, "Data.MarshalBinary")
    /\ UNCHANGED << Payload, Retries, svars, hvars >>

ReadReqDecode ==
    /\ CanDecode
    /\ \E prior \in PriorReadReqs :
         LET r == ReadReqUnmarshalBinary(prior, cbytes)
         IN  /\ cdst' = [type |-> "ReadReq", prior |-> prior, v |-> r.q]
             /\ cerr' = r.err
    /\ cop' = Append(cop, "ReadReq.UnmarshalBinary")
    /\ UNCHANGED << csrc, cbytes, Payload, Retries, svars, hvars >>

DataDecode ==
    /\ CanDecode
    /\ \E prior \in PriorDatas :
         LET r == DataUnmarshalBinary(prior, cbytes)
         IN  /\ cdst' = [type |-> "Data", prior |-> prior, v |-> r.d]
             /\ cerr' = r.err
    /\ cop' = Append(cop, "Data.UnmarshalBinary")
    /\ UNCHANGED << csrc, cbytes, Payload, Retries, svars, hvars >>

AckDecode ==
    /\ CanDecode
    /\ \E prior \in PriorAcks :
         LET r == AckUnmarshalBinary(prior, cbytes)
         IN  /\ cdst' = [type |-> "Ack", prior |-> prior, v |-> r.a]
             /\ cerr' = r.err
    /\ cop' = Append(cop, "Ack.UnmarshalBinary")
    /\ UNCHANGED << csrc, cbytes, Payload, Retries, svars, hvars >>

ErrorDecode ==
    /\ CanDecode
    /\ \E prior \in PriorErrors :
         LET r == ErrorUnmarshalBinary(prior, cbytes)
         IN  /\ cdst' = [type |-> "Error", prior |-> prior, v |-> r.e]
             /\ cerr' = r.err
    /\ cop' = Append(cop, "Error.UnmarshalBinary")
    /\ UNCHANGED << csrc, cbytes, Payload, Retries, svars, hvars >>

\* a server that is not run
ServerUnused ==
    /\ Payload = NoPayload
    /\ Retries = 0
    /\ Timeout = 0
    /\ lconn = "nil"
    /\ lnet = <<>>
    /\ ServeNotStarted

\* the caller holds a packet value
InitCodecValue ==
    /\ \/ \E q \in CodecReadReqs : csrc = [type |-> "ReadReq", v |-> q]
       \/ \E a \in CodecAcks : csrc = [type |-> "Ack", v |-> a]
       \/ \E e \in CodecErrors : csrc = [type |-> "Error", v |-> e]
       \/ \E d \in CodecDatas : csrc = [type |-> "Data", v |-> d]
    /\ cbytes = <<>>
    /\ cdst = [type |-> "none"]
    /\ cerr = FALSE
    /\ cop = <<>>
    /\ ServerUnused

\* the caller holds a byte slice
InitCodecBytes ==
    /\ csrc = [type |-> "none"]
    /\ cbytes \in CodecBuffers
    /\ cdst = [type |-> "none"]
    /\ cerr = FALSE
    /\ cop = <<>>
    /\ ServerUnused

InitCodec == InitCodecValue \/ InitCodecBytes

NextCodec ==
    \/ ReadReqEncode \/ AckEncode \/ ErrorEncode \/ DataEncode
    \/ ReadReqDecode \/ DataDecode \/ AckDecode \/ ErrorDecode

SpecCodec == InitCodec /\ [][NextCodec]_vars

\* ------------------------------------------ a transfer across block 65535
\* SpecWrap follows one handle from its start with a short payload, or from
\* the acknowledgment of block 65534 of a payload of 65537 blocks; there the
\* histories hold block 65534 alone.

\* a payload of 65536 full blocks and 100 bytes
WrapPayload == [len |-> Uint16 * BlockSize + 100, seed |-> 3]

\* the last block acknowledged before SpecWrap takes over
WrapFrom == Uint16 - 2

\* handle after the Ack of block WrapFrom, sent once, was read
InitAfterAck ==
    /\ Payload = WrapPayload
    /\ Retries \in 1..MaxRetries
    /\ pc = "marshal"
    /\ conn = "open"
    /\ ackPkt = WrapFrom
    /\ errPkt = [Error |-> 0, Message |-> <<>>]
    /\ dataPkt = [Block |-> WrapFrom, Payload |-> [s |-> Payload, i |-> WrapFrom * BlockSize]]
    /\ buf = AckMarshalBinary(WrapFrom) \o Zeros(BlockSize)
    /\ data = PutUint16(OpDATA) \o PutUint16(WrapFrom)
                 \o PayloadSlice(Payload, (WrapFrom - 1) * BlockSize, WrapFrom * BlockSize)
    /\ n = DatagramSize
    /\ i = Retries
    /\ wire = << data >>
    /\ acked = { WrapFrom }
    /\ awaits = << [t |-> "datagram", d |-> AckMarshalBinary(WrapFrom)] >>
    /\ log = <<>>
    /\ ServeLaunchedOne
    /\ CodecIdle

\* handle at its start, with a payload of two blocks
InitShort ==
    /\ Payload = [len |-> BlockSize + 188, seed |-> 3]
    /\ Retries \in 1..MaxRetries
    /\ HandleIdle
    /\ ServeLaunchedOne
    /\ CodecIdle

InitWrap == InitShort \/ InitAfterAck

SpecWrap == InitWrap /\ [][Next]_vars

\* ------------------------------------------------------ reading the history
Last(q) == q[Len(q)]

\* the block number and the payload of a datagram on the wire
BlockOf(dg) == DataUnmarshalBinary(ZeroData, dg).d.Block

PayloadOf(dg) == DataUnmarshalBinary(ZeroData, dg).d.Payload

\* the distinct data blocks of w in the order sent: a datagram numbered as
\* the one before it is a retransmission and is left out
RECURSIVE Distinct(_)
Distinct(w) ==
    IF Len(w) <= 1 THEN w
    ELSE LET front == SubSeq(w, 1, Len(w) - 1)
         IN  IF BlockOf(Last(w)) = BlockOf(Last(front))
             THEN Distinct(front)
             ELSE Append(Distinct(front), Last(w))

\* the payloads of the datagrams of w, one after the other
RECURSIVE Concat(_)
Concat(w) ==
    IF w = <<>> THEN <<>>
    ELSE Concat(SubSeq(w, 1, Len(w) - 1)) \o PayloadOf(Last(w))

\* handle has logged "sent %d blocks": the transfer is done
Done == pc = "return" /\ log # <<>> /\ Last(log).msg = "sent blocks"

\* ------------------------------------------------------------------ claims

\* C1: within one transfer the first data packet carrying block N+1 is never
\* sent before a reply that decodes as an Acknowledgment for block N was
\* received, for every N >= 1.
C1_BlocksInOrder ==
    \A j \in 1..Len(wire) :
        LET b == BlockOf(wire[j]) IN b >= 2 => (b - 1) \in acked

\* C2: a transfer of an N-byte payload whose every block is acknowledged
\* emits exactly floor(N/512)+1 distinct data blocks numbered 1..k; every
\* block before the last carries 512 bytes and the last fewer than 512.
C2_BlockCount ==
    Done =>
        LET D == Distinct(wire)
            k == Len(D)
        IN  /\ k = (Payload.len \div BlockSize) + 1
            /\ \A j \in 1..k :
                 /\ ~DataUnmarshalBinary(ZeroData, D[j]).err
                 /\ BlockOf(D[j]) = j
                 /\ j < k => Len(PayloadOf(D[j])) = BlockSize
            /\ Len(PayloadOf(D[k])) < BlockSize
            /\ Len(PayloadOf(D[k])) = Payload.len % BlockSize

C2_Witness ==
    /\ Done
    /\ Payload.len = 2 * BlockSize
    /\ Len(Distinct(wire)) = 3
    /\ Len(wire) = 3

\* C3: in a transfer that reaches Done the payloads of the distinct data
\* blocks, concatenated in block order, are the configured payload byte for
\* byte, whatever timeouts and retransmissions occurred.
C3_PayloadIntact ==
    Done => Concat(Distinct(wire)) = PayloadSlice(Payload, 0, Payload.len)

C3_Witness ==
    /\ Done
    /\ Payload.len = BlockSize + 188
    /\ Len(wire) > Len(Distinct(wire))
    /\ Concat(Distinct(wire)) # <<>>

\* ------------------------------------------- the awaits of the current block
AllTimeouts(q) == \A j \in 1..Len(q) : q[j].t = "timeout"

Timeouts(q) == Cardinality({j \in 1..Len(q) : q[j].t = "timeout"})

\* how often the current block went out
SendsOfCurrent == Cardinality({j \in 1..Len(wire) : BlockOf(wire[j]) = dataPkt.Block})

\* the datagram alone decodes as an Error packet
DecodesAsError(d) == ~ErrorUnmarshalBinary([Error |-> 0, Message |-> <<>>], d).err

\* this step is a conn.Read that returned a datagram
GotDatagram == Len(awaits') = Len(awaits) + 1 /\ Last(awaits').t = "datagram"

\* r is an acknowledgment of another block than the one awaited
Mismatched(r) ==
    /\ r.t = "datagram"
    /\ DecodesAsAck(r.d) # {}
    /\ DecodesAsAck(r.d) # {dataPkt.Block}

\* r is a datagram that decodes as neither an Ack nor an Error
Malformed(r) ==
    /\ r.t = "datagram"
    /\ DecodesAsAck(r.d) = {}
    /\ ~DecodesAsError(r.d)

\* the first r-1 awaits of the block timed out and the r-th got its Ack
TimeoutsThenAck ==
    /\ awaits # <<>>
    /\ AllTimeouts(SubSeq(awaits, 1, Len(awaits) - 1))
    /\ Last(awaits) = [t |-> "datagram", d |-> AckMarshalBinary(dataPkt.Block)]

\* C4: every retransmission of a block is byte-identical to its first
\* transmission: a timeout leaves the cached bytes, the block counter and the
\* read position unchanged, and the write after it sends the cached bytes.
C4_RetransmitIdentical ==
    [][ /\ (Len(awaits') = Len(awaits) + 1 /\ Last(awaits').t = "timeout")
            => (data' = data /\ dataPkt' = dataPkt /\ wire' = wire)
        /\ (Len(wire') = Len(wire) + 1 /\ awaits # <<>>)
            => /\ Last(wire') = wire[Len(wire) - Len(awaits) + 1]
               /\ Last(wire') = data
               /\ dataPkt' = dataPkt
      ]_vars

C4_Witness ==
    /\ pc = "read"
    /\ awaits # <<>>
    /\ Last(awaits).t = "timeout"
    /\ Len(wire) >= 2
    /\ wire[Len(wire)] = wire[Len(wire) - 1]
    /\ Len(PayloadOf(Last(wire))) = BlockSize

\* C5: when every one of Retries awaits on a block times out, the block was
\* sent exactly Retries times, the transfer has ended with "exhausted
\* retries", and no further data packet can be sent.
C5_Exhaustion ==
    (Len(awaits) = Retries /\ AllTimeouts(awaits))
        => /\ pc = "return"
           /\ Last(log) = Line("exhausted retries", 0)
           /\ SendsOfCurrent = Retries
           /\ ~ENABLED Write

C5_Witness ==
    /\ Len(awaits) = Retries
    /\ AllTimeouts(awaits)
    /\ Retries >= 2
    /\ pc = "return"
    /\ dataPkt.Block = 2

\* C6: when the first r-1 awaits on a block time out and the r-th receives
\* the matching acknowledgment (r <= Retries), the transfer is not aborted:
\* it goes on to the next block, or is Done after the final block, and Done
\* reports the number of distinct blocks sent.
C6_RetryThenSuccess ==
    /\ TimeoutsThenAck =>
         /\ Len(awaits) <= Retries
         /\ IF Len(PayloadOf(Last(wire))) = BlockSize
            THEN pc = "marshal" /\ conn = "open"
            ELSE Done
    /\ Done => Last(log).v = Len(Distinct(wire))

C6_Witness ==
    /\ Done
    /\ TimeoutsThenAck
    /\ Retries >= 2
    /\ Len(awaits) = Retries
    /\ Len(Distinct(wire)) >= 2
    /\ Len(wire) > Len(Distinct(wire))

\* C7: when the reply to a data packet decodes as an Error packet the
\* transfer ends at once: "received error" is logged, the block was sent as
\* often as it was awaited (nothing after the reply), the reply itself
\* consumed no retry, and no further data packet can be sent.
C7_ErrorIsFatal ==
    (awaits # <<>> /\ Last(awaits).t = "datagram" /\ DecodesAsError(Last(awaits).d))
        => /\ pc = "return"
           /\ Last(log).msg = "received error"
           /\ SendsOfCurrent = Len(awaits)
           /\ i = Retries - (Len(awaits) - 1)
           /\ ~ENABLED Write

C7_Witness ==
    /\ Len(awaits) >= 2
    /\ Last(awaits).t = "datagram"
    /\ DecodesAsError(Last(awaits).d)
    /\ pc = "return"
    /\ i >= 1

\* C8: an acknowledgment whose block number differs from the block just sent
\* never advances the transfer: block counter, read position and cached
\* packet stay as they are, the next block is not encoded, and the transfer
\* is not Done because of it.
C8_MismatchedAckNoAdvance ==
    [][ (GotDatagram /\ Mismatched(Last(awaits')))
            => /\ dataPkt' = dataPkt
               /\ data' = data
               /\ wire' = wire
               /\ pc' \in {"write", "return"}
               /\ ~Done'
      ]_vars

C8_Witness ==
    /\ awaits # <<>>
    /\ Mismatched(Last(awaits))
    /\ Last(awaits).d = AckMarshalBinary(1)
    /\ dataPkt.Block = 2
    /\ pc = "write"

\* C9: an acknowledgment with a mismatched block number is ignored: it causes
\* no retransmission and does not decrement the retry budget, only an
\* elapsed timeout does either.  So while a block has met nothing but
\* timeouts and mismatched acknowledgments, the budget used and the
\* retransmissions made are those of the timeouts.
C9_MismatchedAckIgnored ==
    (awaits # <<>> /\ \A j \in 1..Len(awaits) :
                        awaits[j].t = "timeout" \/ Mismatched(awaits[j]))
        => /\ i = Retries - Timeouts(awaits)
           /\ SendsOfCurrent <= 1 + Timeouts(awaits)

\* C10: a reply that decodes as neither an Acknowledgment nor an Error is
\* never fatal to a live transfer: no number of malformed replies alone
\* makes the transfer terminate.
C10_MalformedNeverFatal ==
    (awaits # <<>> /\ \A j \in 1..Len(awaits) : Malformed(awaits[j]))
        => pc # "return"

\* C11: a payload shorter than 512 bytes is answered with one data block,
\* numbered 1 and carrying the whole payload; once the peer acknowledges
\* block 1 the transfer is Done after exactly 1 block and sends nothing more.
C11_SingleBlock ==
    Payload.len < BlockSize =>
        /\ \A j \in 1..Len(wire) :
             wire[j] = PutUint16(OpDATA) \o PutUint16(1)
                           \o PayloadSlice(Payload, 0, Payload.len)
        /\ (awaits # <<>> /\ Last(awaits) = [t |-> "datagram", d |-> AckMarshalBinary(1)])
             => /\ Done
                /\ Last(log) = Line("sent blocks", 1)
                /\ ~ENABLED Marshal
                /\ ~ENABLED Write

C11_Witness ==
    /\ Payload.len = 11
    /\ Done
    /\ wire = << PutUint16(OpDATA) \o PutUint16(1) \o PayloadSlice(Payload, 0, 11) >>
    /\ awaits = << [t |-> "datagram", d |-> AckMarshalBinary(1)] >>

\* C12 as claimed: a payload of exactly 1024 bytes whose blocks are all
\* acknowledged is sent as exactly 2 data blocks, both of 512 bytes.
C12_TwoBlocks ==
    (Done /\ Payload.len = 2 * BlockSize) =>
        LET D == Distinct(wire)
        IN  /\ Len(D) = 2
            /\ \A j \in 1..Len(D) : Len(PayloadOf(D[j])) = BlockSize

\* C12 as amended: a payload of exactly 1024 bytes whose blocks are all
\* acknowledged is sent as exactly 3 data blocks: two of 512 bytes and a
\* final block with an empty payload.
C12_ThreeBlocks ==
    (Done /\ Payload.len = 2 * BlockSize) =>
        LET D == Distinct(wire)
        IN  /\ Len(D) = 3
            /\ Len(PayloadOf(D[1])) = BlockSize
            /\ Len(PayloadOf(D[2])) = BlockSize
            /\ Len(PayloadOf(D[3])) = 0
            /\ Last(log) = Line("sent blocks", 3)

C12_Witness ==
    /\ Done
    /\ Payload.len = 2 * BlockSize
    /\ Len(Last(wire)) = 4
    /\ AllTimeouts(SubSeq(awaits, 1, Len(awaits) - 1))

\* C13 as claimed: a payload of exactly 1536 bytes whose blocks are all
\* acknowledged is sent as exactly 3 data blocks: two of 512 bytes and a
\* final block with an empty payload.
C13_ThreeBlocks ==
    (Done /\ Payload.len = 3 * BlockSize) =>
        LET D == Distinct(wire)
        IN  /\ Len(D) = 3
            /\ Len(PayloadOf(D[1])) = BlockSize
            /\ Len(PayloadOf(D[2])) = BlockSize
            /\ Len(PayloadOf(D[3])) = 0

\* C13 as amended: a payload of exactly 1536 bytes whose blocks are all
\* acknowledged is sent as exactly 4 data blocks: three of 512 bytes and a
\* final block with an empty payload.
C13_FourBlocks ==
    (Done /\ Payload.len = 3 * BlockSize) =>
        LET D == Distinct(wire)
        IN  /\ Len(D) = 4
            /\ \A j \in 1..3 : Len(PayloadOf(D[j])) = BlockSize /\ BlockOf(D[j]) = j
            /\ Len(PayloadOf(D[4])) = 0
            /\ BlockOf(D[4]) = 4
            /\ Concat(D) = PayloadSlice(Payload, 0, 3 * BlockSize)
            /\ Last(log) = Line("sent blocks", 4)

C13_Witness ==
    /\ Done
    /\ Payload.len = 3 * BlockSize
    /\ Len(wire) = 4
    /\ Last(wire) = PutUint16(OpDATA) \o PutUint16(4)

\* --------------------------------------------- reading a goroutine's history
\* the goroutine has not returned
Live(h) == h.pc # "return"

\* the goroutine returned after the last block was acknowledged
HDone(h) == h.pc = "return" /\ h.log # <<>> /\ Last(h.log).msg = "sent blocks"

\* Serve decodes the datagram d, in its buffer, as a read request
Accepts(d) ==
    ~ReadReqUnmarshalBinary(ZeroReadReq, d \o Zeros(DatagramSize - Len(d))).err

\* the data packet of block j of the configured payload
ExpectedData(j) ==
    PutUint16(OpDATA) \o PutUint16(j)
        \o PayloadSlice(Payload, (j - 1) * BlockSize, Min(j * BlockSize, Payload.len))

\* C14: the accept loop never waits for a transfer: while earlier transfers
\* are live, Serve can receive the next datagram, and every datagram that
\* Serve accepted started exactly one transfer, to its sender.
C14_AcceptLoopNeverBlocks ==
    /\ (srv = "recv" /\ lnet # <<>>) => ENABLED ServeReadFrom
    /\ \A k \in 1..Len(ts) :
         /\ ts[k].src \in 1..Len(lrecv)
         /\ ts[k].addr = lrecv[ts[k].src].addr
    /\ srv # "decode" =>
         \A j \in 1..Len(lrecv) :
            Cardinality({k \in 1..Len(ts) : ts[k].src = j}) = IF Accepts(lrecv[j].d) THEN 1 ELSE 0

\* a second transfer was started while the first awaits an acknowledgment
C14_Witness ==
    /\ Len(ts) = 2
    /\ ts[1].pc = "read"
    /\ ts[2].pc = "read"
    /\ srv = "recv"

\* C15: no two transfers to the same peer address are live at the same time.
C15_OneTransferPerPeer ==
    \A j, k \in 1..Len(ts) :
        (j # k /\ ts[j].addr = ts[k].addr) => ~(Live(ts[j]) /\ Live(ts[k]))

\* C16: a step of one transfer leaves Serve and every other transfer as they
\* were, the open sockets of two transfers differ, and every reply a transfer
\* read was sent in reply to that transfer.
C16_Isolated ==
    [][ /\ \A k \in 1..Len(ts) :
             ts'[k] # ts[k] =>
                /\ Len(ts') = Len(ts)
                /\ \A j \in (1..Len(ts)) \ {k} : ts'[j] = ts[j]
                /\ UNCHANGED << srv, serveErr, lconn, lnet, lrecv, rrq, slog,
                                Payload, Retries, Timeout >>
        /\ \A j, k \in 1..Len(ts') :
             (j # k /\ ts'[j].conn # 0 /\ ts'[k].conn # 0) => ts'[j].conn # ts'[k].conn
        /\ \A k \in 1..Len(ts') :
             \A g \in 1..Len(ts'[k].got) : ts'[k].got[g].re = k
      ]_vars

\* the first transfer was ended by the peer's Error packet, the second one
\* had its first block acknowledged after that and awaits the next Ack
C16_Witness ==
    /\ Len(ts) = 2
    /\ ts[1].pc = "return"
    /\ Last(ts[1].log).msg = "received error"
    /\ ts[2].pc = "read"
    /\ ts[2].dataPkt.Block = 2
    /\ Len(ts[2].got) = 1
    /\ srv = "recv"

\* C17: no step changes the payload, and every transfer sends the blocks of
\* the payload in order from block 1, all of them when it completes.
C17_PayloadSharedReadOnly ==
    [][ /\ Payload' = Payload
        /\ \A k \in 1..Len(ts') :
             LET D == Distinct(ts'[k].wire)
             IN  /\ \A j \in 1..Len(D) : D[j] = ExpectedData(j)
                 /\ HDone(ts'[k]) => Len(D) = (Payload.len \div BlockSize) + 1
      ]_vars

\* two transfers run at different positions of the payload
C17_Witness ==
    /\ Len(ts) = 2
    /\ ts[1].pc = "read"
    /\ ts[1].dataPkt.Block = 2
    /\ ts[2].pc = "read"
    /\ ts[2].dataPkt.Block = 1
    /\ ts[1].dataPkt.Payload.i > ts[2].dataPkt.Payload.i

\* the goroutine returned because no attempt of a block was acknowledged
HExhausted(h) ==
    h.pc = "return" /\ h.log # <<>> /\ Last(h.log).msg = "exhausted retries"

\* how many times the goroutine wrote the data packet it wrote last
HSendsOfLast(h) ==
    Cardinality({j \in 1..Len(h.wire) : h.wire[j] = Last(h.wire)})

\* the datagram d by itself decodes as a read request
ValidReadReq(d) == ~ReadReqUnmarshalBinary(ZeroReadReq, d).err

\* C18: a datagram that does not decode as a valid ReadRequest starts no
\* transfer, and Serve, once it receives, returns only with the error of
\* conn.ReadFrom.
C18_InvalidStartsNoTransfer ==
    /\ \A j \in 1..Len(lrecv) :
         ~ValidReadReq(lrecv[j].d) => ~\E k \in 1..Len(ts) : ts[k].src = j
    /\ (srv = "return" /\ lrecv # <<>>) => serveErr = "read"

\* C19: with a nil connection or a nil payload Serve returns an error and
\* neither receives a datagram nor starts a transfer; otherwise a Retries of
\* 0 makes the transfers try every block 10 times, and a Timeout of 0 makes
\* them wait 6 seconds for every reply.
C19_Preconditions ==
    /\ (lconn = "nil" \/ Payload = NoPayload) =>
          /\ srv \in {"start", "return"}
          /\ srv = "return" => serveErr \in {"nil connection", "Payload is required"}
          /\ lrecv = <<>>
          /\ ts = <<>>
    /\ srv \in {"recv", "decode"} =>
          /\ Retries = IF cfg.Retries = 0 THEN 10 ELSE cfg.Retries
          /\ Timeout = IF cfg.Timeout = 0 THEN 6 * Second ELSE cfg.Timeout
    /\ \A k \in 1..Len(ts) :
          /\ ts[k].pc = "read" =>
                ts[k].deadline = IF cfg.Timeout = 0 THEN 6 * Second ELSE cfg.Timeout
          /\ (HExhausted(ts[k]) /\ cfg.Retries = 0) =>
                /\ Len(ts[k].wire) >= 10
                /\ HSendsOfLast(ts[k]) = 10

\* a server configured with neither Retries nor Timeout gave up a block
\* after ten attempts
C19_Witness ==
    /\ cfg.Retries = 0
    /\ cfg.Timeout = 0
    /\ Len(ts) = 1
    /\ HExhausted(ts[1])
    /\ Len(ts[1].wire) = 10
    /\ ts[1].deadline = 6 * Second
    /\ ts[1].got = <<>>

\* C20: with a payload of zero length Serve fails at its start: it receives
\* no datagram and starts no transfer.
C20_EmptyPayloadRejected ==
    Payload.len = 0 =>
        /\ srv \in {"start", "return"}
        /\ srv = "return" => serveErr # ""
        /\ lrecv = <<>>
        /\ ts = <<>>

\* ------------------------------------------------ reading a call of the codec
\* the call made last
LastCall == IF cop = <<>> THEN "none" ELSE Last(cop)

\* str holds no NUL
NulFree(str) == \A k \in 1..Len(str) : str[k] # 0

\* the ReadReq drawn is one whose encoding decodes: a non-empty filename
\* without NUL, and no mode or "octet" in any case
RoundTripReadReq ==
    /\ csrc.type = "ReadReq"
    /\ cdst.type = "ReadReq"
    /\ csrc.v.Filename # <<>>
    /\ NulFree(csrc.v.Filename)
    /\ csrc.v.Mode = <<>> \/ ToLower(csrc.v.Mode) = <<111, 99, 116, 101, 116>>

\* C23 as stated: decoding the encoding of such a ReadReq gives the ReadReq
\* back, Filename and Mode.
C23_ReadReqRoundTrip ==
    RoundTripReadReq => (~cerr /\ cdst.v = csrc.v)

\* C23: decoding the encoding of such a ReadReq gives its Filename back, and
\* its Mode when it has one; for an empty Mode it gives "octet".
C23_ReadReqRoundTripDefault ==
    RoundTripReadReq =>
        /\ ~cerr
        /\ cdst.v.Filename = csrc.v.Filename
        /\ cdst.v.Mode = IF csrc.v.Mode = <<>> THEN <<111, 99, 116, 101, 116>> ELSE csrc.v.Mode

\* a ReadReq with the mode "OCTET" came back from its encoding
C23_Witness ==
    /\ RoundTripReadReq
    /\ csrc.v.Mode = <<79, 67, 84, 69, 84>>
    /\ cdst.prior # ZeroReadReq
    /\ cdst.v = csrc.v
    /\ ~cerr

\* C24: an Ack encodes to 4 bytes and decodes to the same block number; an
\* Error decodes to the same code and message.
C24_AckErrorRoundTrip ==
    /\ (csrc.type = "Ack" /\ cop # <<>>) => Len(cbytes) = 4
    /\ (csrc.type = "Ack" /\ cdst.type = "Ack") => (~cerr /\ cdst.v = csrc.v)
    /\ (csrc.type = "Error" /\ cdst.type = "Error") => (~cerr /\ cdst.v = csrc.v)

\* an Error of the largest code and no message came back from its encoding
C24_Witness ==
    /\ csrc.type = "Error"
    /\ csrc.v = [Error |-> 65535, Message |-> <<>>]
    /\ cdst.type = "Error"
    /\ cdst.prior # ZeroError
    /\ cdst.v = csrc.v
    /\ ~cerr

\* C25: a call of Data.MarshalBinary adds 1 to the 16-bit Block, takes the
\* next min(512, remaining) bytes of the payload and returns 00 03, the new
\* block number and those bytes; Data.UnmarshalBinary of that gives the new
\* block number and those bytes.
C25_DataEncode ==
    [][ /\ (cop' # cop /\ Last(cop') = "Data.MarshalBinary") =>
             LET from == csrc.v.Payload.i
                 k    == Min(512, csrc.v.Payload.s.len - from)
                 b    == (csrc.v.Block + 1) % 65536
             IN  /\ csrc'.v.Block = b
                 /\ csrc'.v.Payload.i = from + k
                 /\ cbytes' = <<0, 3, b \div 256, b % 256>>
                                 \o PayloadSlice(csrc.v.Payload.s, from, from + k)
                 /\ Len(cbytes') <= 516
        /\ (cop' # cop /\ Last(cop') = "Data.UnmarshalBinary" /\ csrc.type = "Data") =>
             LET to == csrc.v.Payload.i
                 k  == Len(cbytes) - 4
             IN  /\ ~cerr'
                 /\ cdst'.v.Block = csrc.v.Block
                 /\ cdst'.v.Payload = PayloadSlice(csrc.v.Payload.s, to - k, to)
      ]_vars

\* the second block of a payload of 700 bytes was encoded and decoded
C25_Witness ==
    /\ csrc.type = "Data"
    /\ csrc.v.Payload.s.len = 700
    /\ Encodes = 2
    /\ csrc.v.Block = 2
    /\ Len(cbytes) = 4 + 188
    /\ cdst.type = "Data"
    /\ cdst.v.Block = 2
    /\ ~cerr

\* C26: each decoder returns an error for a buffer whose first two bytes are
\* not its own operation code.
C26_WrongOpcodeFails ==
    (cdst.type # "none" /\ Len(cbytes) >= 2) =>
        LET own == CASE cdst.type = "ReadReq" -> 1
                     [] cdst.type = "Data" -> 3
                     [] cdst.type = "Ack" -> 4
                     [] cdst.type = "Error" -> 5
        IN  ~(cbytes[1] = 0 /\ cbytes[2] = own) => cerr

\* the encoding of a Data was given to Ack.UnmarshalBinary
C26_Witness ==
    /\ csrc.type = "Data"
    /\ cdst.type = "Ack"
    /\ Len(cbytes) >= 4
    /\ cerr

\* C27: Data.UnmarshalBinary returns an error for a buffer of less than 4 or
\* more than 516 bytes and leaves the Data it is called on as it was.
C27_DataLengthChecked ==
    (cdst.type = "Data" /\ (Len(cbytes) < 4 \/ Len(cbytes) > 516)) =>
        (cerr /\ cdst.v = cdst.prior)

\* a well-formed Data packet of 517 bytes was refused
C27_Witness ==
    /\ cdst.type = "Data"
    /\ Len(cbytes) = 517
    /\ cbytes[1] = 0
    /\ cbytes[2] = 3
    /\ cdst.prior # ZeroData
    /\ cerr

\* p begins with 00 01, a non-empty filename, a NUL, a mode that is "octet"
\* in lower or upper case letters, and a NUL
WellFormedReadReq(p) ==
    LET z == { k \in 3..Len(p) : p[k] = 0 }
    IN  /\ Len(p) >= 2
        /\ p[1] = 0
        /\ p[2] = 1
        /\ Cardinality(z) >= 2
        /\ LET k1 == CHOOSE k \in z : \A j \in z : k <= j
               k2 == CHOOSE k \in z \ {k1} : \A j \in z \ {k1} : k <= j
           IN  /\ k1 > 3
               /\ k2 = k1 + 6
               /\ \A j \in 1..5 :
                    p[k1 + j] \in { <<111, 99, 116, 101, 116>>[j], <<79, 67, 84, 69, 84>>[j] }

\* C28: ReadReq.UnmarshalBinary succeeds exactly on 00 01, a non-empty
\* NUL-terminated filename and a NUL-terminated mode that is "octet" in any
\* case; after a success Filename and Mode hold no NUL.
C28_ReadReqDecode ==
    cdst.type = "ReadReq" =>
        /\ ~cerr <=> WellFormedReadReq(cbytes)
        /\ ~cerr => (NulFree(cdst.v.Filename) /\ NulFree(cdst.v.Mode))

\* a request with the mode "Octet" was decoded
C28_Witness ==
    /\ csrc.type = "none"
    /\ cdst.type = "ReadReq"
    /\ cbytes = <<0, 1, 120, 0, 79, 99, 116, 101, 116, 0, 1, 2>>
    /\ cdst.v = [Filename |-> <<120>>, Mode |-> <<79, 99, 116, 101, 116>>]
    /\ ~cerr

\* C29: ReadReq.MarshalBinary returns 00 01, the filename, 00, the mode or
\* "octet" for an empty mode, 00, and leaves the ReadReq as it was.
C29_ReadReqEncode ==
    [][ (cop' # cop /\ Last(cop') = "ReadReq.MarshalBinary") =>
            /\ csrc' = csrc
            /\ cbytes' = <<0, 1>> \o csrc.v.Filename \o <<0>>
                            \o (IF csrc.v.Mode = <<>> THEN <<111, 99, 116, 101, 116>>
                                                      ELSE csrc.v.Mode)
                            \o <<0>>
      ]_vars

\* a ReadReq without a mode was encoded
C29_Witness ==
    /\ csrc.type = "ReadReq"
    /\ csrc.v = [Filename |-> <<97, 46, 98>>, Mode |-> <<>>]
    /\ LastCall = "ReadReq.MarshalBinary"
    /\ cbytes = <<0, 1, 97, 46, 98, 0, 111, 99, 116, 101, 116, 0>>

\* C30: the k-th distinct data block carries the number k mod 65536, from 1
\* for the first; Block stays a 16-bit number equal to the one on the wire,
\* the next block is encoded only after an Ack of that number, and the
\* transfer goes on after block 65535 with block 0 up to its end.
C30_BlockNumberWraps ==
    LET D    == Distinct(wire)
        base == IF Payload = WrapPayload THEN 65533 ELSE 0
    IN  /\ dataPkt.Block \in 0..65535
        /\ \A j \in 1..Len(D) :
             /\ BlockOf(D[j]) = (base + j) % 65536
             /\ PayloadOf(D[j]) =
                    PayloadSlice(Payload, (base + j - 1) * 512, Min((base + j) * 512, Payload.len))
        /\ pc \in {"write", "read"} => dataPkt.Block = BlockOf(data)
        /\ Done => base + Len(D) = (Payload.len \div 512) + 1
        /\ (pc = "marshal" /\ wire # <<>>) => ackPkt = dataPkt.Block

\* the transfer of 65537 blocks ended: after block 65535 the blocks 0 and 1
\* were sent and acknowledged
C30_Witness ==
    /\ Payload = WrapPayload
    /\ Done
    /\ Len(Distinct(wire)) = 4
    /\ BlockOf(Distinct(wire)[2]) = 65535
    /\ BlockOf(Distinct(wire)[3]) = 0
    /\ BlockOf(Last(wire)) = 1
    /\ {0, 1} \subseteq acked

\* the lines a handle logs last when it returns
Outcomes ==
    { "dial", "write", "waiting for ACK", "received error", "exhausted retries",
      "sent blocks" }

\* C21: once Serve has returned it stays returned, receives nothing and
\* starts no transfer; a transfer ends only with an outcome of its own, and
\* every transfer live when Serve returns goes on to its end.
C21_CloseKeepsTransfers ==
    /\ [][ srv = "return" =>
             (srv' = "return" /\ lrecv' = lrecv /\ lnet' = lnet /\ Len(ts') = Len(ts)) ]_vars
    /\ [][ \A k \in 1..Len(ts) :
             (Live(ts[k]) /\ ~Live(ts'[k])) =>
                 (ts'[k].log # <<>> /\ Last(ts'[k].log).msg \in Outcomes) ]_vars
    /\ (srv = "return") ~> (\A k \in 1..Len(ts) : ~Live(ts[k]))

\* Serve returned with a request still on its way, and the transfer it had
\* started sent both blocks of the payload
C21_Witness ==
    /\ srv = "return"
    /\ serveErr = "read"
    /\ lnet # <<>>
    /\ Len(ts) = 1
    /\ HDone(ts[1])
    /\ ts[1].dataPkt.Block = 2

\* C22: when Serve is done with a datagram that is a read request, a
\* goroutine exists that answers its sender.
C22_EveryRequestAnswered ==
    \A j \in 1..Len(lrecv) :
        ( /\ Len(lrecv[j].d) >= 2
          /\ lrecv[j].d[1] = 0
          /\ lrecv[j].d[2] = 1
          /\ j < Len(lrecv) \/ srv # "decode" ) =>
        \E k \in 1..Len(ts) : ts[k].src = j

\* --------------------------------------------------- the budget of a block
\* C31: the retry budget is per block: the first transmission of every block
\* starts with the whole budget, the budget left is Retries less the awaits
\* of the current block alone, and retries are exhausted only when the
\* current block itself was sent and awaited Retries times.
C31_BudgetPerBlock ==
    /\ (pc = "write" /\ awaits = <<>>) => i = Retries
    /\ pc \in {"write", "read"} => (i = Retries - Len(awaits) /\ i > 0)
    /\ (pc = "return" /\ log # <<>> /\ Last(log).msg = "exhausted retries")
         => (Len(awaits) = Retries /\ SendsOfCurrent = Retries)

\* block 1 used up all but its last attempt, and block 2 still went out
\* Retries times before the retries were exhausted
C31_Witness ==
    /\ pc = "return"
    /\ Last(log).msg = "exhausted retries"
    /\ Retries >= 2
    /\ dataPkt.Block = 2
    /\ Len(wire) = 2 * Retries
    /\ SendsOfCurrent = Retries

\* ---------------------------------------------- timeouts and hard failures
\* this step is a conn.Read that ended the way t says
Awaited(t) == Len(awaits') = Len(awaits) + 1 /\ Last(awaits').t = t

\* C32: a timeout on a block that has attempts left never ends the transfer:
\* the RETRY loop goes on and the next write sends the cached packet again.
\* A failed write and a read error that is no timeout end the transfer at
\* once: handle returns with that failure logged, nothing is written in the
\* step, and nothing can be written afterwards.
C32_TimeoutRetriesFailureEnds ==
    /\ [][ /\ (Awaited("timeout") /\ i > 1)
               => (pc' = "write" /\ conn' = "open" /\ log' = log /\ wire' = wire)
           /\ (pc = "write" /\ awaits # <<>> /\ Last(awaits).t = "timeout" /\ wire' # wire)
               => (wire' = Append(wire, Last(wire)) /\ pc' = "read")
           /\ Awaited("error")
               => (pc' = "return" /\ Last(log') = Line("waiting for ACK", 0) /\ wire' = wire)
           /\ (pc = "write" /\ pc' = "return")
               => (Last(log') = Line("write", 0) /\ wire' = wire)
         ]_vars
    /\ [](pc = "return" => ~ENABLED Write)

\* the first await of block 2 timed out, the block was sent again, and the
\* second await failed with an error that is no timeout
C32_Witness ==
    /\ pc = "return"
    /\ Last(log) = Line("waiting for ACK", 0)
    /\ dataPkt.Block = 2
    /\ Len(awaits) = 2
    /\ awaits[1].t = "timeout"
    /\ awaits[2].t = "error"
    /\ SendsOfCurrent = 2

\* ------------------------------------------------------ the end of handle
\* the lines handle logs right before a return that follows the dial
Summaries == Outcomes \ {"dial"}

\* the lines of the log that are summaries
SummaryLines == {j \in 1..Len(log) : log[j].msg \in Summaries}

\* C33: when handle has returned after its socket was opened, the socket is
\* closed, the log holds exactly one summary line and it is the last line,
\* and from then on nothing is written and nothing is logged; a handle that
\* has not returned has logged no summary.
C33_EndClosesAndSummarises ==
    /\ []((pc = "return" /\ conn # "none")
            => /\ conn = "closed"
               /\ SummaryLines = {Len(log)}
               /\ ~ENABLED Write)
    /\ [](pc # "return" => SummaryLines = {})
    /\ [][pc = "return" => (wire' = wire /\ log' = log /\ conn' = conn)]_vars

\* the retries of block 2 were exhausted after a bad packet was logged
C33_Witness ==
    /\ pc = "return"
    /\ conn = "closed"
    /\ dataPkt.Block = 2
    /\ Len(log) >= 2
    /\ log[1].msg = "bad packet"
    /\ Last(log).msg = "exhausted retries"

\* ------------------------------------------- the budget and the timeout run
\* C34: every transfer Serve launched waits for a reply with a deadline after
\* the time of the write and with at least one attempt in its budget,
\* whatever Retries and Timeout the server was configured with.
C34_PositiveRetriesAndTimeout ==
    \A k \in 1..Len(ts) :
        ts[k].pc = "read" => (ts[k].i >= 1 /\ ts[k].deadline > 0 /\ Retries >= 1 /\ Timeout > 0)

\* ------------------------------------------------------ decoding is total
\* the value an UnmarshalBinary left in its destination is of the
\* destination's type
WellTyped(dst) ==
    CASE dst.type = "ReadReq" -> DOMAIN dst.v = {"Filename", "Mode"}
      [] dst.type = "Data"    -> DOMAIN dst.v = {"Block", "Payload"} /\ dst.v.Block \in 0..(Uint16 - 1)
      [] dst.type = "Ack"     -> dst.v \in 0..(Uint16 - 1)
      [] dst.type = "Error"   -> DOMAIN dst.v = {"Error", "Message"} /\ dst.v.Error \in 0..(Uint16 - 1)

\* C35: every one of the four decoders gives a result on every byte slice:
\* it can be called on whatever the caller holds, and it returns success or
\* an error with its destination a value of its type.  Ack.UnmarshalBinary
\* on less than 4 bytes returns an error and leaves its destination, and
\* Error.UnmarshalBinary returns an error when no 0 byte follows the code.
C35_DecodingTotal ==
    /\ CanDecode =>
         (ENABLED ReadReqDecode /\ ENABLED DataDecode /\ ENABLED AckDecode /\ ENABLED ErrorDecode)
    /\ cdst.type # "none" => (cerr \in BOOLEAN /\ WellTyped(cdst))
    /\ (cdst.type = "Ack" /\ Len(cbytes) < 4) => (cerr /\ cdst.v = cdst.prior)
    /\ (cdst.type = "Error" /\ NulFree(SubSeq(cbytes, 5, Len(cbytes)))) => cerr

\* Error.UnmarshalBinary was given the code 1 and the message "x" with no
\* 0 byte after it, and returned an error
C35_Witness ==
    /\ cdst.type = "Error"
    /\ cbytes = <<0, 5, 0, 1, 120>>
    /\ cerr
    /\ cdst.v.Error = 1

\* ------------------------------------------------------------ termination
\* handle is a goroutine that is scheduled, and each of its calls returns:
\* conn.Read at the latest when its deadline has passed
SpecFair == Init /\ [][Next]_vars /\ WF_vars(Next)

\* how often block b went out
SendsOf(b) == Cardinality({j \in 1..Len(wire) : BlockOf(wire[j]) = b})

\* the number of blocks of the payload
Blocks == Payload.len \div BlockSize + 1

\* C36: whatever conn.Read returns, handle returns; it has then written at
\* most Blocks * Retries datagrams, and never more than Retries for one
\* block.
C36_Terminates ==
    /\ [](Len(wire) <= Blocks * Retries)
    /\ [](\A j \in 1..Len(wire) : SendsOf(BlockOf(wire[j])) <= Retries)
    /\ <>(pc = "return")

\* a payload of two blocks was sent with every attempt used: a bad packet
\* and then the Ack for block 1, an Ack of block 1 and a timeout for block 2
C36_Witness ==
    /\ pc = "return"
    /\ Retries >= 2
    /\ Blocks = 2
    /\ Len(wire) = Blocks * Retries
    /\ SendsOf(1) = Retries
    /\ SendsOf(2) = Retries
    /\ Mismatched(awaits[1])
    /\ Last(log).msg = "exhausted retries"
    /\ \E j \in 1..Len(log) : log[j].msg = "bad packet"

\* ------------------------------------------------- what the switch decodes
\* C37: a reply counts as the acknowledgment of the current block only when
\* the datagram just read decodes as an Ack of that block, and as an Error
\* packet only when the datagram just read decodes as one: what buf holds
\* beyond the datagram plays no part.
C37_OnlyTheDatagramCounts ==
    [][ GotDatagram =>
          LET d == Last(awaits').d
          IN  /\ (pc' = "marshal" \/ Done') => DecodesAsAck(d) = {dataPkt.Block}
              /\ (pc' = "return" /\ Last(log').msg = "received error") => DecodesAsError(d)
      ]_vars

\* --------------------------------------------------- what Serve decodes
\* C38: Serve starts a transfer for a datagram it is done with exactly when
\* the bytes received decode by themselves as a read request; a datagram
\* whose mode has no 0 byte after it starts none.
C38_StartsExactlyForValid ==
    \A j \in 1..Len(lrecv) :
        (j < Len(lrecv) \/ srv # "decode") =>
            (ValidReadReq(lrecv[j].d) <=> \E k \in 1..Len(ts) : ts[k].src = j)

\* -------------------------------------------- the request and the data sent
\* the datagrams a goroutine read from its socket, in order
Replies(h) == [x \in 1..Len(h.got) |-> h.got[x].d]

\* two goroutines that read the same replies and stand at the same place
\* with the same attempts left and the same lines logged
SameCourse(h, g) ==
    /\ Replies(h) = Replies(g)
    /\ h.pc = g.pc
    /\ h.i = g.i
    /\ h.log = g.log

\* C39: what a transfer sends does not depend on its request.  For two
\* transfers whose requests differ, a block that both sent went out with the
\* same bytes, those of the configured payload, and when both took the same
\* course they sent the same blocks and hold the same data packet.
C39_DataIndependentOfRequest ==
    \A j, k \in 1..Len(ts) :
        ts[j].rrq # ts[k].rrq =>
            /\ \A a \in 1..Len(ts[j].wire), b \in 1..Len(ts[k].wire) :
                 BlockOf(ts[j].wire[a]) = BlockOf(ts[k].wire[b]) =>
                    /\ ts[j].wire[a] = ts[k].wire[b]
                    /\ ts[j].wire[a] = ExpectedData(BlockOf(ts[j].wire[a]))
            /\ SameCourse(ts[j], ts[k]) =>
                 /\ Distinct(ts[j].wire) = Distinct(ts[k].wire)
                 /\ ts[j].dataPkt = ts[k].dataPkt
                 /\ ts[j].data = ts[k].data

\* a request for "x" in mode octet and one for "y" in mode OCTET were both
\* served to the end, with the same datagrams
C39_Witness ==
    /\ Len(ts) = 2
    /\ ts[1].rrq = [Filename |-> <<120>>, Mode |-> Octet]
    /\ ts[2].rrq = [Filename |-> <<121>>, Mode |-> OctetUpper]
    /\ HDone(ts[1])
    /\ HDone(ts[2])
    /\ ts[1].wire # <<>>
    /\ ts[1].wire = ts[2].wire

====
